---- MODULE Spec2Model ----
(***************************************************************************)
(* Model of the two reconciliation loops of cloudnative-pg:                *)
(*   - the replication slot Replicator                                     *)
(*     (internal/management/controller/slots/runner/runner.go)             *)
(*   - the webhook PKI Setup (package certs)                               *)
(***************************************************************************)
EXTENDS Integers, Sequences, FiniteSets, TLC

(***************************************************************************)
(* Bounds                                                                  *)
(***************************************************************************)
\* number of distinct replication slot names
NumSlots == 1
\* largest update interval a configuration carries
MaxInterval == 2

SlotNames == 1..NumSlots
Intervals == 1..MaxInterval

(***************************************************************************)
(* Replicator state                                                        *)
(***************************************************************************)
VARIABLES
    pc,              \* position of the goroutine started by Start
    config,          \* local variable config of the goroutine
    updateInterval,  \* local variable updateInterval (0: not yet assigned)
    tickerRunning,   \* the ticker delivers ticks
    tickerPeriod,    \* period of the ticker (0: no ticker yet)
    tickPending,     \* a tick is waiting in ticker.C
    chanPending,     \* configurations waiting on SlotReplicatorChan
    cancelled,       \* ctx.Done() is closed
    startReturned,   \* Start has returned to its caller
    recovered,       \* a panic has been recovered by the deferred function
    crashed,         \* a panic has escaped the goroutine
    primary,         \* slot names existing on the primary
    local,           \* slot names existing on the local instance
    passConfig,      \* parameter config of synchronizeReplicationSlots
    slotsInPrimary,  \* slotsInPrimary.Items
    slotsInLocal,    \* slotsInLocal.Items
    idx,             \* position in the range loop in progress
    err,             \* value returned by synchronizeReplicationSlots
    calls,           \* manager calls of the pass in progress
    inFlight         \* number of passes started and not yet returned

runnerVars == <<pc, config, updateInterval, tickerRunning, tickerPeriod,
                tickPending, chanPending, cancelled, startReturned, recovered,
                crashed, primary, local, passConfig, slotsInPrimary,
                slotsInLocal, idx, err, calls, inFlight>>

(***************************************************************************)
(* PKI state                                                               *)
(***************************************************************************)
VARIABLES
    spc,               \* position of the Setup run
    clock,             \* the time, in validity periods
    caStore,           \* the secret CaSecretName in the cluster
    leafStore,         \* the secret SecretName in the cluster
    storeRev,          \* last resourceVersion given out by the API server
    nextKey,           \* number of private keys generated so far
    secret,            \* local variable secret of the Ensure / renew functions,
                       \* from the answer of the Get until the function hands
                       \* it to Setup
    caSecret,          \* local variable caSecret of Setup, up to its last use
                       \* (the call of EnsureCertificate, line 131)
    webhookSecret,     \* local variable webhookSecret of Setup
    certDir,           \* the files of CertDir named after the data fields
    resourceFile,      \* content of CertDir/resource (0: no such file)
    dumpTodo,          \* data fields the range loop has still to write
    mutatingConfig,    \* the MutatingWebhookConfiguration in the cluster
    validatingConfig,  \* the ValidatingWebhookConfiguration in the cluster
    fetchedConfig,     \* local variable config of the Inject functions
    stepsRun,          \* steps of Setup entered in this run
    stepErrs,          \* errors returned to Setup by the steps of this run
    setupErr,          \* the error returned by Setup
    other              \* the locals of the Setup run the scheduler started
                       \* next to this one, while it is not the one running

setupVars == <<spc, clock, caStore, leafStore, storeRev, nextKey, secret,
               caSecret, webhookSecret, certDir, resourceFile, dumpTodo,
               mutatingConfig, validatingConfig, fetchedConfig, stepsRun,
               stepErrs, setupErr, other>>

vars == <<runnerVars, setupVars>>

(***************************************************************************)
(* Configurations                                                          *)
(***************************************************************************)
\* a nil *ReplicationSlotsConfiguration
NilConfig == [present |-> FALSE, ha |-> "nil", updateInterval |-> 0]

\* ha: HighAvailability is nil, or its Enabled field is off / on
Configs == {NilConfig} \cup
           [present : {TRUE}, ha : {"nil", "off", "on"}, updateInterval : Intervals]

\* config.GetUpdateInterval(): a nil configuration yields the default interval
GetUpdateInterval(c) == IF c.present THEN c.updateInterval ELSE 1

\* line 72 without the test of HighAvailability.Enabled
ReplicationDisabledMut(c) == (~c.present) \/ c.ha = "nil"

\* the condition of line 72
ReplicationDisabled(c) == (~c.present) \/ c.ha = "nil" \/ c.ha # "on"

(***************************************************************************)
(* Slot lists                                                              *)
(***************************************************************************)
Range(s) == {s[i] : i \in 1..Len(s)}

\* the orders in which a List call can return the slots of a set
Listings(S) == {s \in [1..Cardinality(S) -> S] : Range(s) = S}

\* ReplicationSlotList.Has
Has(items, name) == \E i \in 1..Len(items) : items[i] = name

Call(mgr, op, slot, outcome) ==
    [mgr |-> mgr, op |-> op, slot |-> slot, cfg |-> passConfig, outcome |-> outcome]

\* position of the second loop (lines 151-158) from index j on
RECURSIVE LocalLoopPos(_, _, _)
LocalLoopPos(j, sip, sil) ==
    IF j > Len(sil) THEN <<"Returned", 0>>
    ELSE IF ~Has(sip, sil[j]) THEN <<"Delete", j>>
    ELSE LocalLoopPos(j + 1, sip, sil)

\* the first loop calling Create for every slot of the primary
PrimaryLoopPosMut(i, sip, sil) ==
    IF i > Len(sip) THEN LocalLoopPos(1, sip, sil)
    ELSE <<"Create", i>>

\* position of the first loop (lines 139-150) at index i
PrimaryLoopPos(i, sip, sil) ==
    IF i > Len(sip) THEN LocalLoopPos(1, sip, sil)
    ELSE IF ~Has(sil, sip[i]) THEN <<"Create", i>>
    ELSE <<"Update", i>>

(***************************************************************************)
(* Initial state: Start has been called, nothing has happened yet          *)
(***************************************************************************)
RunnerInit ==
    /\ pc = "WaitingForConfig"
    /\ config = NilConfig
    /\ updateInterval = 0
    /\ tickerRunning = FALSE
    /\ tickerPeriod = 0
    /\ tickPending = FALSE
    /\ chanPending = {}
    /\ cancelled = FALSE
    /\ startReturned = FALSE
    /\ recovered = FALSE
    /\ crashed = FALSE
    /\ primary \in SUBSET SlotNames
    /\ local \in SUBSET SlotNames
    /\ passConfig = NilConfig
    /\ slotsInPrimary = <<>>
    /\ slotsInLocal = <<>>
    /\ idx = 0
    /\ err = "nil"
    /\ calls = <<>>
    /\ inFlight = 0

\* largest value of the clock
MaxClock == 1
\* largest number of private keys generated
MaxKeys == 3
\* largest number of entries in the webhook list of an admission configuration
MaxWebhooks == 2

\* byte blobs: a certificate (its signing key and issue time) or a private key
NoBlob == [signer |-> 0, issuedAt |-> 0, key |-> 0]
CertBlob(signer, at) == [signer |-> signer, issuedAt |-> at, key |-> 0]
KeyBlob(k) == [signer |-> 0, issuedAt |-> 0, key |-> k]

CAFields == {"ca.crt", "ca.key"}
LeafFields == {"tls.crt", "tls.key"}

\* no secret: the zero value, also what a Get that finds nothing yields
NoSecret == [exists |-> FALSE, rv |-> 0, data |-> <<>>]

\* no admission configuration
NoConfig == [exists |-> FALSE, webhooks |-> <<>>]

\* an entry of the list Webhooks of an admission configuration: its Name and
\* the field ClientConfig.CABundle
Webhook(name, bundle) == [Name |-> name, CABundle |-> bundle]

\* the lists of names of the webhooks of an admission configuration: up to
\* MaxWebhooks distinct names, in an order that is not the sorted one
WebhookNames == {[i \in 1..k |-> k + 1 - i] : k \in 0..MaxWebhooks}

\* an admission configuration whose webhooks have the names given, in that
\* order, and an empty CABundle
EmptyConfig(names) ==
    [exists |-> TRUE,
     webhooks |-> [i \in 1..Len(names) |-> Webhook(names[i], NoBlob)]]

\* the locals of a Setup run that has not been called
IdleRun == [spc |-> "Idle", secret |-> NoSecret, caSecret |-> NoSecret,
            webhookSecret |-> NoSecret, dumpTodo |-> {}, fetchedConfig |-> NoConfig,
            stepsRun |-> <<>>, stepErrs |-> <<>>, setupErr |-> "nil"]

SetupInit ==
    /\ spc = "Idle"
    /\ clock = 0
    /\ caStore = NoSecret
    /\ leafStore = NoSecret
    /\ storeRev = 0
    /\ nextKey = 0
    /\ secret = NoSecret
    /\ caSecret = NoSecret
    /\ webhookSecret = NoSecret
    /\ certDir = [f \in LeafFields |-> NoBlob]
    /\ resourceFile = 0
    /\ dumpTodo = {}
    /\ mutatingConfig \in {NoConfig} \cup {EmptyConfig(names) : names \in WebhookNames}
    /\ validatingConfig \in {NoConfig} \cup {EmptyConfig(names) : names \in WebhookNames}
    /\ fetchedConfig = NoConfig
    /\ stepsRun = <<>>
    /\ stepErrs = <<>>
    /\ setupErr = "nil"
    /\ other = IdleRun

\* the PKI state when only the Replicator is observed
SetupQuiet ==
    /\ SetupInit
    /\ mutatingConfig = NoConfig
    /\ validatingConfig = NoConfig

\* the Replicator state when only Setup is observed
RunnerQuiet ==
    /\ RunnerInit
    /\ primary = {}
    /\ local = {}

Init == RunnerInit /\ SetupQuiet

passVars == <<passConfig, slotsInPrimary, slotsInLocal, idx, err, calls, inFlight>>
tickerVars == <<tickerRunning, tickerPeriod, tickPending>>

(***************************************************************************)
(* Environment                                                             *)
(***************************************************************************)
\* a configuration is pushed on SlotReplicatorChan (one sender at a time)
PushConfig(c) ==
    /\ chanPending = {}
    /\ chanPending' = {c}
    /\ UNCHANGED <<pc, config, updateInterval, tickerVars, cancelled,
                   startReturned, recovered, crashed, primary, local, passVars>>
    /\ UNCHANGED setupVars

\* the ticker period elapses; ticker.C holds at most one tick
TickElapse ==
    /\ tickerRunning
    /\ ~tickPending
    /\ tickPending' = TRUE
    /\ UNCHANGED <<pc, config, updateInterval, tickerRunning, tickerPeriod,
                   chanPending, cancelled, startReturned, recovered, crashed,
                   primary, local, passVars>>
    /\ UNCHANGED setupVars

\* the context is cancelled
Cancel ==
    /\ ~cancelled
    /\ cancelled' = TRUE
    /\ UNCHANGED <<pc, config, updateInterval, tickerVars, chanPending,
                   startReturned, recovered, crashed, primary, local, passVars>>
    /\ UNCHANGED setupVars

\* the database engine creates or drops a slot on the primary
PrimaryChange(n) ==
    /\ primary' = IF n \in primary THEN primary \ {n} ELSE primary \cup {n}
    /\ UNCHANGED <<pc, config, updateInterval, tickerVars, chanPending,
                   cancelled, startReturned, recovered, crashed, local, passVars>>
    /\ UNCHANGED setupVars

\* line 113-114: Start blocks on ctx.Done() and then returns
StartReturn ==
    /\ cancelled
    /\ ~startReturned
    /\ startReturned' = TRUE
    /\ UNCHANGED <<pc, config, updateInterval, tickerVars, chanPending,
                   cancelled, recovered, crashed, primary, local, passVars>>
    /\ UNCHANGED setupVars

(***************************************************************************)
(* Replicator.Start: the goroutine                                          *)
(***************************************************************************)
\* configurations and ticks handled while a pass is running
AtSelectMut == pc \notin {"WaitingForConfig", "Terminated"}

\* lines 62-63: the goroutine is blocked in the select of the for loop
AtSelect == pc = "Select"

\* line 79: the interval in force differs from the one of the configuration
IntervalChanged(old, new) == old # new

\* line 109 with return in the place of continue
AfterSyncErrorMut == "Terminated"

\* line 109: where the loop goes after a failed pass
AfterSyncError == "Select"

\* the goroutine without the deferred recover()
DeferredRecoverMut(panicking) == FALSE

\* lines 56-60: the deferred recover() catches the panic in flight
DeferredRecover(panicking) == panicking

\* line 141 with Create called on primarySlotManager
CreateMgrMut == "primary"

\* the manager that receives the List of line 127, the List of line 133,
\* Create and Update
PrimaryListMgr == "primary"
LocalListMgr == "local"
CreateMgr == "local"
UpdateMgr == "local"

\* line 153 with Delete called on primarySlotManager
DeleteMgrMut == "primary"

\* the manager that receives Delete
DeleteMgr == "local"

\* ticker.Stop() and ticker.Reset() leave a tick already in ticker.C there
\* (Go < 1.23) or discard it (Go >= 1.23)
AfterStopOrReset(tp) == {tp, FALSE}

\* lines 48-50: the first configuration is received and the ticker is created
FirstConfig(c) ==
    /\ pc = "WaitingForConfig"
    /\ c \in chanPending
    /\ chanPending' = chanPending \ {c}
    /\ config' = c
    /\ updateInterval' = GetUpdateInterval(c)
    /\ tickerRunning' = TRUE
    /\ tickerPeriod' = GetUpdateInterval(c)
    /\ pc' = "Select"
    /\ UNCHANGED <<tickPending, cancelled, startReturned, recovered, crashed,
                   primary, local, passVars>>
    /\ UNCHANGED setupVars

\* lines 52-60: the deferred functions run when the goroutine returns or panics
Unwind(panicking) ==
    /\ recovered' = (recovered \/ DeferredRecover(panicking))
    /\ crashed' = (crashed \/ (panicking /\ ~DeferredRecover(panicking)))
    /\ tickerRunning' = FALSE
    /\ tickPending' \in AfterStopOrReset(tickPending)
    /\ pc' = "Terminated"
    /\ passConfig' = NilConfig
    /\ slotsInPrimary' = <<>>
    /\ slotsInLocal' = <<>>
    /\ idx' = 0
    /\ err' = "nil"
    /\ inFlight' = 0
    /\ UNCHANGED <<config, updateInterval, tickerPeriod>>

\* lines 70-106: the loop body after the select, with configuration c and
\* tp telling whether a tick is still waiting in ticker.C
LoopBody(c, tp) ==
    IF ReplicationDisabled(c)
    THEN /\ tickerRunning' = FALSE
         /\ tickPending' \in AfterStopOrReset(tp)
         /\ pc' = "Select"
         /\ UNCHANGED <<updateInterval, tickerPeriod, passVars>>
    ELSE /\ IF IntervalChanged(updateInterval, GetUpdateInterval(c))
            THEN /\ tickerRunning' = TRUE
                 /\ tickerPeriod' = GetUpdateInterval(c)
                 /\ tickPending' \in AfterStopOrReset(tp)
                 /\ updateInterval' = GetUpdateInterval(c)
            ELSE /\ tickPending' = tp
                 /\ UNCHANGED <<tickerRunning, tickerPeriod, updateInterval>>
         /\ pc' = "ListPrimary"
         /\ passConfig' = c
         /\ inFlight' = inFlight + 1
         /\ calls' = <<>>
         /\ UNCHANGED <<slotsInPrimary, slotsInLocal, idx, err>>

\* lines 64-65: the select takes ctx.Done()
SelectDone ==
    /\ AtSelect
    /\ cancelled
    /\ Unwind(FALSE)
    /\ UNCHANGED <<calls, chanPending, cancelled, startReturned, primary, local>>
    /\ UNCHANGED setupVars

\* line 66: the select takes a configuration
SelectConfig(c) ==
    /\ AtSelect
    /\ c \in chanPending
    /\ chanPending' = chanPending \ {c}
    /\ config' = c
    /\ LoopBody(c, tickPending)
    /\ UNCHANGED <<cancelled, startReturned, recovered, crashed, primary, local>>
    /\ UNCHANGED setupVars

\* line 67: the select takes a tick
SelectTick ==
    /\ AtSelect
    /\ tickPending
    /\ LoopBody(config, FALSE)
    /\ UNCHANGED <<config, chanPending, cancelled, startReturned, recovered,
                   crashed, primary, local>>
    /\ UNCHANGED setupVars

(***************************************************************************)
(* synchronizeReplicationSlots: one step per manager call                   *)
(***************************************************************************)
Outcomes == {"ok", "error", "panic"}

\* a manager call returns an error: the pass returns it (lines 128-130,
\* 134-136, 142-144, 147-149, 154-156)
CallFails(mgr, op, slot) ==
    /\ calls' = Append(calls, Call(mgr, op, slot, "error"))
    /\ err' = "error"
    /\ pc' = "Returned"
    /\ UNCHANGED <<config, updateInterval, tickerVars, recovered, crashed,
                   primary, local, passConfig, slotsInPrimary, slotsInLocal,
                   idx, inFlight>>

\* a manager call panics: the goroutine unwinds
CallPanics(mgr, op, slot) ==
    /\ calls' = Append(calls, Call(mgr, op, slot, "panic"))
    /\ Unwind(TRUE)
    /\ UNCHANGED <<primary, local>>

\* the slot set of the instance a manager is connected to, after a
\* successful Create or Delete of slot
AfterCreate(mgr, db, slot) == db \cup {slot}
AfterDelete(mgr, db, slot) == db \ {slot}

\* line 127
ListPrimary(o) ==
    /\ pc = "ListPrimary"
    /\ \/ /\ o = "ok"
          /\ slotsInPrimary' \in
                Listings(IF PrimaryListMgr = "primary" THEN primary ELSE local)
          /\ calls' = Append(calls, Call(PrimaryListMgr, "List", 0, "ok"))
          /\ pc' = "ListLocal"
          /\ UNCHANGED <<config, updateInterval, tickerVars, recovered,
                         crashed, primary, local, passConfig, slotsInLocal,
                         idx, err, inFlight>>
       \/ o = "error" /\ CallFails(PrimaryListMgr, "List", 0)
       \/ o = "panic" /\ CallPanics(PrimaryListMgr, "List", 0)
    /\ UNCHANGED <<chanPending, cancelled, startReturned>>
    /\ UNCHANGED setupVars

\* line 133, and the entry in the first loop
ListLocal(o) ==
    /\ pc = "ListLocal"
    /\ \/ /\ o = "ok"
          /\ \E sil \in Listings(IF LocalListMgr = "local" THEN local ELSE primary) :
                /\ slotsInLocal' = sil
                /\ pc' = PrimaryLoopPos(1, slotsInPrimary, sil)[1]
                /\ idx' = PrimaryLoopPos(1, slotsInPrimary, sil)[2]
          /\ calls' = Append(calls, Call(LocalListMgr, "List", 0, "ok"))
          /\ err' = "nil"
          /\ UNCHANGED <<config, updateInterval, tickerVars, recovered,
                         crashed, primary, local, passConfig, slotsInPrimary,
                         inFlight>>
       \/ o = "error" /\ CallFails(LocalListMgr, "List", 0)
       \/ o = "panic" /\ CallPanics(LocalListMgr, "List", 0)
    /\ UNCHANGED <<chanPending, cancelled, startReturned>>
    /\ UNCHANGED setupVars

\* lines 140-145
Create(o) ==
    /\ pc = "Create"
    /\ LET slot == slotsInPrimary[idx] IN
       \/ /\ o = "ok"
          /\ IF CreateMgr = "local"
             THEN /\ local' = AfterCreate(CreateMgr, local, slot)
                  /\ UNCHANGED primary
             ELSE /\ primary' = AfterCreate(CreateMgr, primary, slot)
                  /\ UNCHANGED local
          /\ calls' = Append(calls, Call(CreateMgr, "Create", slot, "ok"))
          /\ pc' = "Update"
          /\ UNCHANGED <<config, updateInterval, tickerVars, recovered,
                         crashed, passConfig, slotsInPrimary, slotsInLocal,
                         idx, err, inFlight>>
       \/ o = "error" /\ CallFails(CreateMgr, "Create", slot)
       \/ o = "panic" /\ CallPanics(CreateMgr, "Create", slot)
    /\ UNCHANGED <<chanPending, cancelled, startReturned>>
    /\ UNCHANGED setupVars

\* lines 146-150, and the next iteration
Update(o) ==
    /\ pc = "Update"
    /\ LET slot == slotsInPrimary[idx] IN
       \/ /\ o = "ok"
          /\ calls' = Append(calls, Call(UpdateMgr, "Update", slot, "ok"))
          /\ pc' = PrimaryLoopPos(idx + 1, slotsInPrimary, slotsInLocal)[1]
          /\ idx' = PrimaryLoopPos(idx + 1, slotsInPrimary, slotsInLocal)[2]
          /\ UNCHANGED <<config, updateInterval, tickerVars, recovered,
                         crashed, primary, local, passConfig, slotsInPrimary,
                         slotsInLocal, err, inFlight>>
       \/ o = "error" /\ CallFails(UpdateMgr, "Update", slot)
       \/ o = "panic" /\ CallPanics(UpdateMgr, "Update", slot)
    /\ UNCHANGED <<chanPending, cancelled, startReturned>>
    /\ UNCHANGED setupVars

\* lines 152-157, and the next iteration
Delete(o) ==
    /\ pc = "Delete"
    /\ LET slot == slotsInLocal[idx] IN
       \/ /\ o = "ok"
          /\ IF DeleteMgr = "local"
             THEN /\ local' = AfterDelete(DeleteMgr, local, slot)
                  /\ UNCHANGED primary
             ELSE /\ primary' = AfterDelete(DeleteMgr, primary, slot)
                  /\ UNCHANGED local
          /\ calls' = Append(calls, Call(DeleteMgr, "Delete", slot, "ok"))
          /\ pc' = LocalLoopPos(idx + 1, slotsInPrimary, slotsInLocal)[1]
          /\ idx' = LocalLoopPos(idx + 1, slotsInPrimary, slotsInLocal)[2]
          /\ UNCHANGED <<config, updateInterval, tickerVars, recovered,
                         crashed, passConfig, slotsInPrimary, slotsInLocal,
                         err, inFlight>>
       \/ o = "error" /\ CallFails(DeleteMgr, "Delete", slot)
       \/ o = "panic" /\ CallPanics(DeleteMgr, "Delete", slot)
    /\ UNCHANGED <<chanPending, cancelled, startReturned>>
    /\ UNCHANGED setupVars

\* lines 107-111: the result of the pass is logged and the loop goes on
HandleResult ==
    /\ pc = "Returned"
    /\ pc' = IF err = "nil" THEN "Select" ELSE AfterSyncError
    /\ passConfig' = NilConfig
    /\ slotsInPrimary' = <<>>
    /\ slotsInLocal' = <<>>
    /\ idx' = 0
    /\ err' = "nil"
    /\ calls' = <<>>
    /\ inFlight' = inFlight - 1
    /\ UNCHANGED <<config, updateInterval, tickerVars, chanPending, cancelled,
                   startReturned, recovered, crashed, primary, local>>
    /\ UNCHANGED setupVars

\* a step of the goroutine
RunnerStep ==
    \/ \E c \in Configs : FirstConfig(c)
    \/ SelectDone
    \/ \E c \in Configs : SelectConfig(c)
    \/ SelectTick
    \/ \E o \in Outcomes : ListPrimary(o)
    \/ \E o \in Outcomes : ListLocal(o)
    \/ \E o \in Outcomes : Create(o)
    \/ \E o \in Outcomes : Update(o)
    \/ \E o \in Outcomes : Delete(o)
    \/ HandleResult

RunnerNext ==
    \/ \E c \in Configs : PushConfig(c)
    \/ TickElapse
    \/ Cancel
    \/ \E n \in SlotNames : PrimaryChange(n)
    \/ StartReturn
    \/ RunnerStep

Next == RunnerNext

Spec == Init /\ [][Next]_vars

(***************************************************************************)
(* Specification of single passes over larger slot sets: one enabled       *)
(* configuration, a fixed primary, every outcome of every manager call     *)
(***************************************************************************)
\* number of distinct slot names in the single pass specification
PassSlots == 3

PassConfig == [present |-> TRUE, ha |-> "on", updateInterval |-> 1]

InitPass ==
    /\ pc = "WaitingForConfig"
    /\ config = NilConfig
    /\ updateInterval = 0
    /\ tickerRunning = FALSE
    /\ tickerPeriod = 0
    /\ tickPending = FALSE
    /\ chanPending = {}
    /\ cancelled = FALSE
    /\ startReturned = FALSE
    /\ recovered = FALSE
    /\ crashed = FALSE
    /\ primary \in SUBSET (1..PassSlots)
    /\ local \in SUBSET (1..PassSlots)
    /\ passConfig = NilConfig
    /\ slotsInPrimary = <<>>
    /\ slotsInLocal = <<>>
    /\ idx = 0
    /\ err = "nil"
    /\ calls = <<>>
    /\ inFlight = 0
    /\ SetupQuiet

PassNext ==
    \/ PushConfig(PassConfig)
    \/ TickElapse
    \/ FirstConfig(PassConfig)
    \/ SelectConfig(PassConfig)
    \/ SelectTick
    \/ \E o \in Outcomes : ListPrimary(o)
    \/ \E o \in Outcomes : ListLocal(o)
    \/ \E o \in Outcomes : Create(o)
    \/ \E o \in Outcomes : Update(o)
    \/ \E o \in Outcomes : Delete(o)
    \/ HandleResult

NextPass == PassNext

SpecPass == InitPass /\ [][NextPass]_vars

(***************************************************************************)
(* Specification with the fairness of the Go scheduler: a goroutine that   *)
(* can run does run, a manager call in flight returns, and a select that   *)
(* is reached again and again with ctx.Done() ready eventually takes it.   *)
(* Nothing obliges the environment to push a configuration.                *)
(***************************************************************************)
FairSpec ==
    /\ Init
    /\ [][Next]_vars
    /\ WF_vars(RunnerStep)
    /\ SF_vars(SelectDone)

(***************************************************************************)
(* The same, with time passing: a running ticker whose channel is empty    *)
(* eventually delivers a tick.                                             *)
(***************************************************************************)
FairTickSpec ==
    /\ Init
    /\ [][Next]_vars
    /\ WF_vars(RunnerStep)
    /\ SF_vars(SelectDone)
    /\ WF_vars(TickElapse)

(***************************************************************************)
(* WebhookEnvironment.Setup                                                *)
(***************************************************************************)
\* the steps of Setup, in the order of lines 124-160
SetupOrder == <<"EnsureAuthority", "EnsureLeafCertificate",
                "MaterializeToDirectory", "InjectMutating", "InjectValidating">>

\* the first call of each step
StepEntry == [EnsureAuthority |-> "CAGet", EnsureLeafCertificate |-> "LeafGet",
              MaterializeToDirectory |-> "DumpCheck", InjectMutating |-> "MutGet",
              InjectValidating |-> "ValGet"]

StepIndex(step) == CHOOSE i \in 1..Len(SetupOrder) : SetupOrder[i] = step

\* Setup returning the NotFound of an injection to its caller
SetupContinuesStrict(step, e) == e = "nil"

\* Setup ignoring the error of DumpSecretToDir
SetupContinuesMut(step, e) ==
    \/ e = "nil"
    \/ step \in {"InjectMutating", "InjectValidating"} /\ e = "NotFound"
    \/ step = "MaterializeToDirectory"

\* lines 128, 133, 138, 145-150, 155-160: Setup goes on after a step that
\* returned e
SetupContinues(step, e) ==
    \/ e = "nil"
    \/ step \in {"InjectMutating", "InjectValidating"} /\ e = "NotFound"

\* pair.IsExpiring(): the certificate is past its renewal threshold at time now
IsExpiring(crt, now) == now > crt.issuedAt

\* the renew functions without the early return of lines 97-99 and 239-241
RenewNeededMut(expiring) == TRUE

\* lines 97-99 and 239-241: the secret is renewed only if its certificate
\* is expiring
RenewNeeded(expiring) == expiring

\* EnsureCertificate signing with a key that is not the one of caSecret
SignerOfMut(ca) == 0

\* lines 198-205 and 244-250: the private key parsed from caSecret, which
\* signs the webhook certificate
SignerOf(ca) == ca.data["ca.key"].key

\* the loop of lines 314-316 overwriting the first webhook only
WithCABundleMut(cfg, bundle) ==
    [cfg EXCEPT !.webhooks = [i \in 1..Len(cfg.webhooks) |->
                                 IF i = 1
                                 THEN [cfg.webhooks[i] EXCEPT !.CABundle = bundle]
                                 ELSE cfg.webhooks[i]]]

\* lines 314-316 and 332-334: the CABundle of every webhook is overwritten,
\* each entry staying at its index with its other fields
WithCABundle(cfg, bundle) ==
    [cfg EXCEPT !.webhooks = [i \in 1..Len(cfg.webhooks) |->
                                 [cfg.webhooks[i] EXCEPT !.CABundle = bundle]]]

\* a step returns e to Setup; Setup returns it or enters the next step
StepReturns(step, e) ==
    /\ stepErrs' = Append(stepErrs, e)
    /\ IF SetupContinues(step, e)
       THEN IF StepIndex(step) = Len(SetupOrder)
            THEN /\ spc' = "Done"
                 /\ setupErr' = "nil"
                 /\ UNCHANGED stepsRun
            ELSE /\ spc' = StepEntry[SetupOrder[StepIndex(step) + 1]]
                 /\ stepsRun' = Append(stepsRun, SetupOrder[StepIndex(step) + 1])
                 /\ UNCHANGED setupErr
       ELSE /\ spc' = "Done"
            /\ setupErr' = e
            /\ UNCHANGED stepsRun

\* outcomes of a call to the API server or to the file system
IOOutcomes == {"ok", "error"}

\* Setup is called, at start-up or by the schedule of
\* SchedulePeriodicMaintenance, in a goroutine that is not inside a call
SetupStart ==
    /\ spc \in {"Idle", "Done"}
    /\ spc' = "CAGet"
    /\ stepsRun' = <<"EnsureAuthority">>
    /\ stepErrs' = <<>>
    /\ setupErr' = "nil"
    /\ secret' = NoSecret
    /\ caSecret' = NoSecret
    /\ webhookSecret' = NoSecret
    /\ fetchedConfig' = NoConfig
    /\ dumpTodo' = {}
    /\ UNCHANGED <<clock, caStore, leafStore, storeRev, nextKey, certDir,
                   resourceFile, mutatingConfig, validatingConfig>>
    /\ UNCHANGED <<runnerVars, other>>

\* time passes
ClockTick ==
    /\ clock < MaxClock
    /\ clock' = clock + 1
    /\ UNCHANGED <<spc, caStore, leafStore, storeRev, nextKey, secret,
                   caSecret, webhookSecret, certDir, resourceFile, dumpTodo,
                   mutatingConfig, validatingConfig, fetchedConfig, stepsRun,
                   stepErrs, setupErr>>
    /\ UNCHANGED <<runnerVars, other>>

\* lines 57-67: the Get of the CA secret, a call to the API server. "ok" is
\* an answer, the secret or NotFound; "error" is any other error.
CAGet(o) ==
    /\ spc = "CAGet"
    /\ \/ /\ o = "ok"
          /\ caStore.exists
          /\ secret' = caStore
          /\ spc' = "CARenew"
          /\ UNCHANGED <<stepsRun, stepErrs, setupErr>>
       \/ /\ o = "ok"
          /\ ~caStore.exists
          /\ secret' = NoSecret
          /\ spc' = "CAGenerate"
          /\ UNCHANGED <<stepsRun, stepErrs, setupErr>>
       \/ /\ o = "error"
          /\ StepReturns("EnsureAuthority", "Other")
          /\ UNCHANGED secret
    /\ UNCHANGED <<caSecret, nextKey>>
    /\ UNCHANGED <<clock, caStore, leafStore, storeRev, webhookSecret, certDir,
                   resourceFile, dumpTodo, mutatingConfig, validatingConfig,
                   fetchedConfig>>
    /\ UNCHANGED <<runnerVars, other>>

\* lines 88-111 and 60-65: renewCACertificate on the secret the Get has
\* answered, up to the Update: the time is read now. The secret is returned
\* as it is, or its certificate is signed again with its own key. "error"
\* is a failure of the parsing or of the signing.
CARenew(o) ==
    /\ spc = "CARenew"
    /\ \/ /\ o = "ok"
          /\ ~RenewNeeded(IsExpiring(secret.data["ca.crt"], clock))
          /\ caSecret' = secret
          /\ secret' = NoSecret
          /\ StepReturns("EnsureAuthority", "nil")
       \/ /\ o = "ok"
          /\ RenewNeeded(IsExpiring(secret.data["ca.crt"], clock))
          /\ secret' = [secret EXCEPT !.data["ca.crt"] =
                            CertBlob(secret.data["ca.key"].key, clock)]
          /\ spc' = "CAUpdate"
          /\ UNCHANGED <<caSecret, stepsRun, stepErrs, setupErr>>
       \/ /\ o = "error"
          /\ StepReturns("EnsureAuthority", "Other")
          /\ UNCHANGED <<secret, caSecret>>
    /\ UNCHANGED nextKey
    /\ UNCHANGED <<clock, caStore, leafStore, storeRev, webhookSecret, certDir,
                   resourceFile, dumpTodo, mutatingConfig, validatingConfig,
                   fetchedConfig>>
    /\ UNCHANGED <<runnerVars, other>>

\* lines 70-76: CreateCA and GenerateCASecret after the Get has answered
\* NotFound, up to the Create: a key is generated and the time is read now.
\* "error" is a failure of the key generation or of the signing.
CAGenerate(o) ==
    /\ spc = "CAGenerate"
    /\ \/ /\ o = "ok"
          /\ nextKey < MaxKeys
          /\ secret' = [exists |-> TRUE, rv |-> 0, data |->
                            [f \in CAFields |-> IF f = "ca.crt"
                                                THEN CertBlob(nextKey + 1, clock)
                                                ELSE KeyBlob(nextKey + 1)]]
          /\ nextKey' = nextKey + 1
          /\ spc' = "CACreate"
          /\ UNCHANGED <<stepsRun, stepErrs, setupErr>>
       \/ /\ o = "error"
          /\ StepReturns("EnsureAuthority", "Other")
          /\ UNCHANGED <<secret, nextKey>>
    /\ UNCHANGED caSecret
    /\ UNCHANGED <<clock, caStore, leafStore, storeRev, webhookSecret, certDir,
                   resourceFile, dumpTodo, mutatingConfig, validatingConfig,
                   fetchedConfig>>
    /\ UNCHANGED <<runnerVars, other>>

\* lines 112-117 and 60-65: Update of the renewed CA secret; the API server
\* refuses a stale resourceVersion. EnsureRootCACertificate returns secret.
CAUpdate(o) ==
    /\ spc = "CAUpdate"
    /\ \/ /\ o = "ok"
          /\ caStore.exists /\ caStore.rv = secret.rv
          /\ caStore' = [secret EXCEPT !.rv = storeRev + 1]
          /\ storeRev' = storeRev + 1
          /\ caSecret' = secret
          /\ secret' = NoSecret
          /\ StepReturns("EnsureAuthority", "nil")
       \/ /\ o = "error"
          /\ StepReturns("EnsureAuthority", "Other")
          /\ UNCHANGED <<caStore, storeRev, caSecret, secret>>
    /\ UNCHANGED <<clock, leafStore, nextKey, webhookSecret, certDir,
                   resourceFile, dumpTodo, mutatingConfig, validatingConfig,
                   fetchedConfig>>
    /\ UNCHANGED <<runnerVars, other>>

\* lines 77-81: Create of the generated CA secret; the API server refuses a
\* name that exists
CACreate(o) ==
    /\ spc = "CACreate"
    /\ \/ /\ o = "ok"
          /\ ~caStore.exists
          /\ caStore' = [secret EXCEPT !.rv = storeRev + 1]
          /\ storeRev' = storeRev + 1
          /\ caSecret' = [secret EXCEPT !.rv = storeRev + 1]
          /\ secret' = NoSecret
          /\ StepReturns("EnsureAuthority", "nil")
       \/ /\ o = "error"
          /\ StepReturns("EnsureAuthority", "Other")
          /\ UNCHANGED <<caStore, storeRev, caSecret, secret>>
    /\ UNCHANGED <<clock, leafStore, nextKey, webhookSecret, certDir,
                   resourceFile, dumpTodo, mutatingConfig, validatingConfig,
                   fetchedConfig>>
    /\ UNCHANGED <<runnerVars, other>>

\* the program points of EnsureCertificate after its Get, where caSecret
\* or the key parsed from it is still to be used or could have been
LeafPoints == {"LeafRenew", "LeafGenerate", "LeafUpdate", "LeafCreate"}

\* lines 191-199: the Get of the webhook secret, a call to the API server
LeafGet(o) ==
    /\ spc = "LeafGet"
    /\ \/ /\ o = "ok"
          /\ leafStore.exists
          /\ secret' = leafStore
          /\ spc' = "LeafRenew"
          /\ UNCHANGED <<stepsRun, stepErrs, setupErr>>
       \/ /\ o = "ok"
          /\ ~leafStore.exists
          /\ secret' = NoSecret
          /\ spc' = "LeafGenerate"
          /\ UNCHANGED <<stepsRun, stepErrs, setupErr>>
       \/ /\ o = "error"
          /\ StepReturns("EnsureLeafCertificate", "Other")
          /\ UNCHANGED secret
    /\ UNCHANGED <<webhookSecret, nextKey>>
    /\ caSecret' = IF spc' \in LeafPoints THEN caSecret ELSE NoSecret
    /\ UNCHANGED <<clock, caStore, leafStore, storeRev, certDir,
                   resourceFile, dumpTodo, mutatingConfig, validatingConfig,
                   fetchedConfig>>
    /\ UNCHANGED <<runnerVars, other>>

\* lines 229-258: renewServerCertificate on the secret the Get has answered,
\* up to the Update: the time is read now. The secret is returned as it is,
\* or its certificate is signed again with the key of caSecret.
LeafRenew(o) ==
    /\ spc = "LeafRenew"
    /\ \/ /\ o = "ok"
          /\ ~RenewNeeded(IsExpiring(secret.data["tls.crt"], clock))
          /\ webhookSecret' = secret
          /\ secret' = NoSecret
          /\ StepReturns("EnsureLeafCertificate", "nil")
       \/ /\ o = "ok"
          /\ RenewNeeded(IsExpiring(secret.data["tls.crt"], clock))
          /\ secret' = [secret EXCEPT !.data["tls.crt"] =
                            CertBlob(SignerOf(caSecret), clock)]
          /\ spc' = "LeafUpdate"
          /\ UNCHANGED <<webhookSecret, stepsRun, stepErrs, setupErr>>
       \/ /\ o = "error"
          /\ StepReturns("EnsureLeafCertificate", "Other")
          /\ UNCHANGED <<secret, webhookSecret>>
    /\ UNCHANGED nextKey
    /\ caSecret' = IF spc' \in LeafPoints THEN caSecret ELSE NoSecret
    /\ UNCHANGED <<clock, caStore, leafStore, storeRev, certDir,
                   resourceFile, dumpTodo, mutatingConfig, validatingConfig,
                   fetchedConfig>>
    /\ UNCHANGED <<runnerVars, other>>

\* lines 202-216: after the Get has answered NotFound, a key pair is
\* generated and signed with the key of caSecret, up to the Create: the
\* time is read now
LeafGenerate(o) ==
    /\ spc = "LeafGenerate"
    /\ \/ /\ o = "ok"
          /\ nextKey < MaxKeys
          /\ secret' = [exists |-> TRUE, rv |-> 0, data |->
                            [f \in LeafFields |-> IF f = "tls.crt"
                                THEN CertBlob(SignerOf(caSecret), clock)
                                ELSE KeyBlob(nextKey + 1)]]
          /\ nextKey' = nextKey + 1
          /\ spc' = "LeafCreate"
          /\ UNCHANGED <<stepsRun, stepErrs, setupErr>>
       \/ /\ o = "error"
          /\ StepReturns("EnsureLeafCertificate", "Other")
          /\ UNCHANGED <<secret, nextKey>>
    /\ UNCHANGED webhookSecret
    /\ caSecret' = IF spc' \in LeafPoints THEN caSecret ELSE NoSecret
    /\ UNCHANGED <<clock, caStore, leafStore, storeRev, certDir,
                   resourceFile, dumpTodo, mutatingConfig, validatingConfig,
                   fetchedConfig>>
    /\ UNCHANGED <<runnerVars, other>>

\* lines 259-264: Update of the renewed webhook secret
LeafUpdate(o) ==
    /\ spc = "LeafUpdate"
    /\ \/ /\ o = "ok"
          /\ leafStore.exists /\ leafStore.rv = secret.rv
          /\ leafStore' = [secret EXCEPT !.rv = storeRev + 1]
          /\ storeRev' = storeRev + 1
          /\ webhookSecret' = [secret EXCEPT !.rv = storeRev + 1]
          /\ secret' = NoSecret
          /\ StepReturns("EnsureLeafCertificate", "nil")
       \/ /\ o = "error"
          /\ StepReturns("EnsureLeafCertificate", "Other")
          /\ UNCHANGED <<leafStore, storeRev, webhookSecret, secret>>
    /\ caSecret' = IF spc' \in LeafPoints THEN caSecret ELSE NoSecret
    /\ UNCHANGED <<clock, caStore, nextKey, certDir,
                   resourceFile, dumpTodo, mutatingConfig, validatingConfig,
                   fetchedConfig>>
    /\ UNCHANGED <<runnerVars, other>>

\* lines 217-222: Create of the generated webhook secret
LeafCreate(o) ==
    /\ spc = "LeafCreate"
    /\ \/ /\ o = "ok"
          /\ ~leafStore.exists
          /\ leafStore' = [secret EXCEPT !.rv = storeRev + 1]
          /\ storeRev' = storeRev + 1
          /\ webhookSecret' = [secret EXCEPT !.rv = storeRev + 1]
          /\ secret' = NoSecret
          /\ StepReturns("EnsureLeafCertificate", "nil")
       \/ /\ o = "error"
          /\ StepReturns("EnsureLeafCertificate", "Other")
          /\ UNCHANGED <<leafStore, storeRev, webhookSecret, secret>>
    /\ caSecret' = IF spc' \in LeafPoints THEN caSecret ELSE NoSecret
    /\ UNCHANGED <<clock, caStore, nextKey, certDir,
                   resourceFile, dumpTodo, mutatingConfig, validatingConfig,
                   fetchedConfig>>
    /\ UNCHANGED <<runnerVars, other>>

\* DumpSecretToDir without the test of line 281
SentinelCurrentMut(rf, rv) == FALSE

\* line 281: the sentinel file, read, holds the resourceVersion rv
SentinelCurrent(rf, rv) == rf = rv

\* lines 270-275: FileExists on the sentinel file, a call to the file system
DumpCheck(o) ==
    /\ spc = "DumpCheck"
    /\ \/ /\ o = "ok"
          /\ resourceFile # 0
          /\ spc' = "DumpRead"
          /\ UNCHANGED <<dumpTodo, stepsRun, stepErrs, setupErr>>
       \/ /\ o = "ok"
          /\ resourceFile = 0
          /\ dumpTodo' = DOMAIN webhookSecret.data
          /\ spc' = "DumpWrite"
          /\ UNCHANGED <<stepsRun, stepErrs, setupErr>>
       \/ /\ o = "error"
          /\ StepReturns("MaterializeToDirectory", "Other")
          /\ UNCHANGED dumpTodo
    /\ UNCHANGED <<clock, caStore, leafStore, storeRev, nextKey, secret,
                   caSecret, webhookSecret, certDir, resourceFile,
                   mutatingConfig, validatingConfig, fetchedConfig>>
    /\ UNCHANGED <<runnerVars, other>>

\* lines 276-286: ReadFile on the sentinel file, a second call to the file
\* system, and the comparison with the resourceVersion of the secret
DumpRead(o) ==
    /\ spc = "DumpRead"
    /\ \/ /\ o = "ok"
          /\ SentinelCurrent(resourceFile, webhookSecret.rv)
          /\ StepReturns("MaterializeToDirectory", "nil")
          /\ UNCHANGED dumpTodo
       \/ /\ o = "ok"
          /\ ~SentinelCurrent(resourceFile, webhookSecret.rv)
          /\ dumpTodo' = DOMAIN webhookSecret.data
          /\ spc' = "DumpWrite"
          /\ UNCHANGED <<stepsRun, stepErrs, setupErr>>
       \/ /\ o = "error"
          /\ StepReturns("MaterializeToDirectory", "Other")
          /\ UNCHANGED dumpTodo
    /\ UNCHANGED <<clock, caStore, leafStore, storeRev, nextKey, secret,
                   caSecret, webhookSecret, certDir, resourceFile,
                   mutatingConfig, validatingConfig, fetchedConfig>>
    /\ UNCHANGED <<runnerVars, other>>

\* lines 289-294: one iteration of the range over secret.Data, in any order
DumpWrite(name, o) ==
    /\ spc = "DumpWrite"
    /\ name \in dumpTodo
    /\ \/ /\ o = "ok"
          /\ certDir' = [certDir EXCEPT ![name] = webhookSecret.data[name]]
          /\ dumpTodo' = dumpTodo \ {name}
          /\ spc' = IF dumpTodo \ {name} = {} THEN "DumpSentinel" ELSE "DumpWrite"
          /\ UNCHANGED <<stepsRun, stepErrs, setupErr>>
       \/ /\ o = "error"
          /\ StepReturns("MaterializeToDirectory", "Other")
          /\ UNCHANGED <<certDir, dumpTodo>>
    /\ UNCHANGED <<clock, caStore, leafStore, storeRev, nextKey, secret,
                   caSecret, webhookSecret, resourceFile, mutatingConfig,
                   validatingConfig, fetchedConfig>>
    /\ UNCHANGED <<runnerVars, other>>

\* lines 296-301: the sentinel file is written
DumpSentinel(o) ==
    /\ spc = "DumpSentinel"
    /\ \/ /\ o = "ok"
          /\ resourceFile' = webhookSecret.rv
          /\ StepReturns("MaterializeToDirectory", "nil")
       \/ /\ o = "error"
          /\ StepReturns("MaterializeToDirectory", "Other")
          /\ UNCHANGED resourceFile
    /\ UNCHANGED <<clock, caStore, leafStore, storeRev, nextKey, secret,
                   caSecret, webhookSecret, certDir, dumpTodo, mutatingConfig,
                   validatingConfig, fetchedConfig>>
    /\ UNCHANGED <<runnerVars, other>>

\* lines 308-316: Get of the mutating configuration and the overwriting
MutGet(o) ==
    /\ spc = "MutGet"
    /\ \/ /\ o = "ok"
          /\ mutatingConfig.exists
          /\ fetchedConfig' = WithCABundle(mutatingConfig, webhookSecret.data["tls.crt"])
          /\ spc' = "MutUpdate"
          /\ UNCHANGED <<stepsRun, stepErrs, setupErr>>
       \/ /\ o = "ok"
          /\ ~mutatingConfig.exists
          /\ StepReturns("InjectMutating", "NotFound")
          /\ UNCHANGED fetchedConfig
       \/ /\ o = "error"
          /\ StepReturns("InjectMutating", "Other")
          /\ UNCHANGED fetchedConfig
    /\ UNCHANGED <<clock, caStore, leafStore, storeRev, nextKey, secret,
                   caSecret, webhookSecret, certDir, resourceFile, dumpTodo,
                   mutatingConfig, validatingConfig>>
    /\ UNCHANGED <<runnerVars, other>>

\* lines 318-319: Update of the mutating configuration
MutUpdate(o) ==
    /\ spc = "MutUpdate"
    /\ \/ /\ o = "ok"
          /\ mutatingConfig' = fetchedConfig
          /\ StepReturns("InjectMutating", "nil")
       \/ /\ o = "error"
          /\ StepReturns("InjectMutating", "Other")
          /\ UNCHANGED mutatingConfig
    /\ UNCHANGED <<clock, caStore, leafStore, storeRev, nextKey, secret,
                   caSecret, webhookSecret, certDir, resourceFile, dumpTodo,
                   validatingConfig, fetchedConfig>>
    /\ UNCHANGED <<runnerVars, other>>

\* lines 326-334: Get of the validating configuration and the overwriting
ValGet(o) ==
    /\ spc = "ValGet"
    /\ \/ /\ o = "ok"
          /\ validatingConfig.exists
          /\ fetchedConfig' = WithCABundle(validatingConfig, webhookSecret.data["tls.crt"])
          /\ spc' = "ValUpdate"
          /\ UNCHANGED <<stepsRun, stepErrs, setupErr>>
       \/ /\ o = "ok"
          /\ ~validatingConfig.exists
          /\ StepReturns("InjectValidating", "NotFound")
          /\ UNCHANGED fetchedConfig
       \/ /\ o = "error"
          /\ StepReturns("InjectValidating", "Other")
          /\ UNCHANGED fetchedConfig
    /\ UNCHANGED <<clock, caStore, leafStore, storeRev, nextKey, secret,
                   caSecret, webhookSecret, certDir, resourceFile, dumpTodo,
                   mutatingConfig, validatingConfig>>
    /\ UNCHANGED <<runnerVars, other>>

\* lines 336-337: Update of the validating configuration
ValUpdate(o) ==
    /\ spc = "ValUpdate"
    /\ \/ /\ o = "ok"
          /\ validatingConfig' = fetchedConfig
          /\ StepReturns("InjectValidating", "nil")
       \/ /\ o = "error"
          /\ StepReturns("InjectValidating", "Other")
          /\ UNCHANGED validatingConfig
    /\ UNCHANGED <<clock, caStore, leafStore, storeRev, nextKey, secret,
                   caSecret, webhookSecret, certDir, resourceFile, dumpTodo,
                   mutatingConfig, fetchedConfig>>
    /\ UNCHANGED <<runnerVars, other>>

SetupNext ==
    \/ SetupStart
    \/ ClockTick
    \/ \E o \in IOOutcomes : CAGet(o)
    \/ \E o \in IOOutcomes : CARenew(o)
    \/ \E o \in IOOutcomes : CAGenerate(o)
    \/ \E o \in IOOutcomes : CAUpdate(o)
    \/ \E o \in IOOutcomes : CACreate(o)
    \/ \E o \in IOOutcomes : LeafGet(o)
    \/ \E o \in IOOutcomes : LeafRenew(o)
    \/ \E o \in IOOutcomes : LeafGenerate(o)
    \/ \E o \in IOOutcomes : LeafUpdate(o)
    \/ \E o \in IOOutcomes : LeafCreate(o)
    \/ \E o \in IOOutcomes : DumpCheck(o)
    \/ \E o \in IOOutcomes : DumpRead(o)
    \/ \E name \in LeafFields, o \in IOOutcomes : DumpWrite(name, o)
    \/ \E o \in IOOutcomes : DumpSentinel(o)
    \/ \E o \in IOOutcomes : MutGet(o)
    \/ \E o \in IOOutcomes : MutUpdate(o)
    \/ \E o \in IOOutcomes : ValGet(o)
    \/ \E o \in IOOutcomes : ValUpdate(o)

\* Setup runs that follow one another: each call returns before the next
InitSetup == RunnerQuiet /\ SetupInit

NextSetup == SetupNext

SpecSetup == InitSetup /\ [][NextSetup]_vars

(***************************************************************************)
(* Overlapping Setup runs. The scheduler of SchedulePeriodicMaintenance    *)
(* calls Setup every hour in a goroutine of its own, whether or not the    *)
(* previous call has returned: two runs advance in any interleaving.       *)
(***************************************************************************)
\* the locals of the run that is running
ThisRun == [spc |-> spc, secret |-> secret, caSecret |-> caSecret,
            webhookSecret |-> webhookSecret, dumpTodo |-> dumpTodo,
            fetchedConfig |-> fetchedConfig, stepsRun |-> stepsRun,
            stepErrs |-> stepErrs, setupErr |-> setupErr]

\* a Setup run is between its call and its return
Running(run) == run.spc \notin {"Idle", "Done"}

\* the Go scheduler runs the other goroutine; the goroutine of a call that
\* has returned is gone
Switch ==
    /\ other # ThisRun
    /\ other' = IF spc = "Done" THEN IdleRun ELSE ThisRun
    /\ spc' = other.spc
    /\ secret' = other.secret
    /\ caSecret' = other.caSecret
    /\ webhookSecret' = other.webhookSecret
    /\ dumpTodo' = other.dumpTodo
    /\ fetchedConfig' = other.fetchedConfig
    /\ stepsRun' = other.stepsRun
    /\ stepErrs' = other.stepErrs
    /\ setupErr' = other.setupErr
    /\ UNCHANGED <<clock, caStore, leafStore, storeRev, nextKey, certDir,
                   resourceFile, mutatingConfig, validatingConfig>>
    /\ UNCHANGED runnerVars

\* the admission configurations are absent: both injections return NotFound
InitOverlap == RunnerQuiet /\ SetupQuiet

NextOverlap ==
    \/ Switch
    \/ SetupStart
    \/ ClockTick
    \/ \E o \in IOOutcomes : CAGet(o)
    \/ \E o \in IOOutcomes : CARenew(o)
    \/ \E o \in IOOutcomes : CAGenerate(o)
    \/ \E o \in IOOutcomes : CAUpdate(o)
    \/ \E o \in IOOutcomes : CACreate(o)
    \/ \E o \in IOOutcomes : LeafGet(o)
    \/ \E o \in IOOutcomes : LeafRenew(o)
    \/ \E o \in IOOutcomes : LeafGenerate(o)
    \/ \E o \in IOOutcomes : LeafUpdate(o)
    \/ \E o \in IOOutcomes : LeafCreate(o)
    \/ \E o \in IOOutcomes : DumpCheck(o)
    \/ \E o \in IOOutcomes : DumpRead(o)
    \/ \E name \in LeafFields, o \in IOOutcomes : DumpWrite(name, o)
    \/ \E o \in IOOutcomes : DumpSentinel(o)
    \/ \E o \in IOOutcomes : MutGet(o)
    \/ \E o \in IOOutcomes : ValGet(o)

SpecOverlap == InitOverlap /\ [][NextOverlap]_vars

(***************************************************************************)
(* Properties                                                              *)
(***************************************************************************)
PassStates == {"ListPrimary", "ListLocal", "Create", "Update", "Delete", "Returned"}

\* number of calls of op for slot n in the pass, on manager mgr
CallCount(mgr, op, n) ==
    Cardinality({i \in 1..Len(calls) :
        calls[i].mgr = mgr /\ calls[i].op = op /\ calls[i].slot = n})

\* slots of successful calls of op in the pass
Applied(op) ==
    {calls[i].slot : i \in {k \in 1..Len(calls) :
        calls[k].op = op /\ calls[k].outcome = "ok"}}

HAEnabled(c) == c.present /\ c.ha = "on"

\* C1: a pass without failure over primary slots P and local slots L leaves
\* the local slot set equal to P, with one Create per name of P \ L, one
\* Delete per name of L \ P, one Update per name of P, all on the local
\* manager, and no other Create, Update or Delete.
C1_Convergence ==
    (pc = "Returned" /\ err = "nil") =>
        LET P == Range(slotsInPrimary)
            L == Range(slotsInLocal)
        IN /\ local = P
           /\ \A n \in 1..(PassSlots + NumSlots) :
                /\ CallCount("local", "Create", n) = (IF n \in P \ L THEN 1 ELSE 0)
                /\ CallCount("local", "Delete", n) = (IF n \in L \ P THEN 1 ELSE 0)
                /\ CallCount("local", "Update", n) = (IF n \in P THEN 1 ELSE 0)
                /\ CallCount("primary", "Create", n) = 0
                /\ CallCount("primary", "Delete", n) = 0
                /\ CallCount("primary", "Update", n) = 0

\* a pass has completed that had to create, to update an existing slot and
\* to delete
C1_Witness ==
    /\ pc = "Returned" /\ err = "nil"
    /\ Range(slotsInPrimary) \ Range(slotsInLocal) # {}
    /\ Range(slotsInLocal) \ Range(slotsInPrimary) # {}
    /\ Range(slotsInLocal) \cap Range(slotsInPrimary) # {}
    /\ local = Range(slotsInPrimary)

\* C2: while the current configuration is absent or has high availability
\* disabled, no pass is in progress and no manager call is made.
C2_IdleSuppression ==
    ~HAEnabled(config) =>
        /\ pc \in {"WaitingForConfig", "Select", "Terminated"}
        /\ inFlight = 0
        /\ calls = <<>>

\* a configuration that disables high availability has been consumed and the
\* ticker stopped, after passes had been made
C2_Witness ==
    /\ pc = "Select"
    /\ config.present /\ config.ha = "off"
    /\ ~tickerRunning
    /\ local = primary /\ local # {}

\* C3 (as claimed): whenever the loop waits in its select with a
\* configuration that enables high availability, the ticker is running, so
\* that ticks keep triggering passes.
C3_TickingResumes ==
    (pc = "Select" /\ HAEnabled(config)) => tickerRunning

\* C4 (as claimed): once cancellation has fired the loop eventually reaches
\* Terminated with its ticker stopped.
C4_CancelTerminates ==
    cancelled ~> (pc = "Terminated" /\ ~tickerRunning)

\* C5 (as claimed): no pass is started once cancellation has fired.
C5_NoPassAfterCancel ==
    [][cancelled => ~(pc # "ListPrimary" /\ pc' = "ListPrimary")]_vars

\* a configuration or a tick has been taken by the select in this step
EventConsumed ==
    /\ pc = "Select"
    /\ pc' # "Terminated"
    /\ \/ chanPending # {} /\ chanPending' = {}
       \/ tickPending /\ ~tickPending' /\ config' = config

\* C6: a failed manager call ends the pass without further calls, what was
\* applied stays applied, the loop goes back to its select with the ticker
\* as it was, and the next tick or configuration consumed with high
\* availability enabled starts a pass from the List on the primary.
C6_ErrorAbortsPassOnly ==
    [][ /\ (pc = "Returned" /\ err = "error") =>
              /\ Applied("Create") \subseteq local
              /\ Applied("Delete") \cap local = {}
              /\ calls[Len(calls)].outcome = "error"
              /\ \A i \in 1..(Len(calls) - 1) : calls[i].outcome = "ok"
              /\ calls' = calls \/ (calls' = <<>> /\ pc' = "Select")
              /\ local' = local
              /\ pc' \in {"Returned", "Select"}
        /\ (pc \in PassStates /\ pc' \in {"Returned", "Select"}) =>
              /\ tickerRunning' = tickerRunning
              /\ tickerPeriod' = tickerPeriod
        /\ (EventConsumed /\ HAEnabled(config')) =>
              /\ pc' = "ListPrimary"
              /\ calls' = <<>>
              /\ slotsInPrimary' = <<>>
              /\ slotsInLocal' = <<>>
      ]_vars

\* a pass has failed after it had created a slot, with a slot left to
\* create and a slot left to delete
C6_Witness ==
    /\ pc = "Returned" /\ err = "error"
    /\ Applied("Create") # {}
    /\ Range(slotsInPrimary) \ local # {}
    /\ local \ Range(slotsInPrimary) # {}
    /\ tickerRunning

Panicked == calls # <<>> /\ calls[Len(calls)].outcome = "panic"

\* C7: after a panic in the loop body the loop is Terminated with its ticker
\* stopped and the panic recovered, nothing of the loop runs afterwards, and
\* Start returns only after cancellation.
C7_PanicTerminates ==
    /\ [](Panicked => /\ pc = "Terminated"
                      /\ ~tickerRunning
                      /\ recovered
                      /\ ~crashed
                      /\ inFlight = 0)
    /\ [](startReturned => cancelled)
    /\ [][Panicked => /\ pc' = "Terminated"
                      /\ calls' = calls
                      /\ local' = local
                      /\ ~tickerRunning']_vars

\* a panic has happened, ticks and configurations are waiting, and Start is
\* still blocked
C7_Witness ==
    /\ Panicked
    /\ pc = "Terminated"
    /\ chanPending # {}
    /\ ~cancelled /\ ~startReturned

\* C8: at most one pass is in progress, and during a pass the configuration
\* of the loop is the one the pass was started with and the one every
\* manager call of the pass was made with.
C8_SingleFlight ==
    /\ inFlight <= 1
    /\ pc \in PassStates =>
          /\ inFlight = 1
          /\ passConfig = config
          /\ \A i \in 1..Len(calls) : calls[i].cfg = config

\* a pass is in progress, with calls made, while another configuration and a
\* tick are waiting
C8_Witness ==
    /\ pc \in {"Create", "Update", "Delete"}
    /\ Len(calls) >= 3
    /\ chanPending # {} /\ chanPending # {config}
    /\ tickPending

\* C9: Create, Update and Delete go to the local manager only, the primary
\* manager receives List only, and a step that changes the slot set of the
\* primary is not a step of the runner.
C9_OnlyLocalMutated ==
    /\ [](\A i \in 1..Len(calls) :
            /\ calls[i].mgr \in {"primary", "local"}
            /\ calls[i].mgr = "primary" => calls[i].op = "List"
            /\ calls[i].op \in {"Create", "Update", "Delete"} => calls[i].mgr = "local")
    /\ [][primary' # primary =>
            UNCHANGED <<pc, config, updateInterval, tickerRunning, tickerPeriod,
                        tickPending, chanPending, cancelled, startReturned,
                        recovered, crashed, local, passConfig, slotsInPrimary,
                        slotsInLocal, idx, err, calls, inFlight>>]_vars

\* a pass has been aborted by a failed Delete, and the slot set of the
\* primary has changed since the pass listed it
C9_Witness ==
    /\ pc = "Returned" /\ err = "error"
    /\ calls[Len(calls)].op = "Delete"
    /\ primary # Range(slotsInPrimary)

\* error returned to Setup by the i-th step of the run is not NotFound
FatalError(i) == stepErrs[i] # "nil" /\ stepErrs[i] # "NotFound"

\* C10: the steps of a Setup run are entered in the order EnsureAuthority,
\* EnsureLeafCertificate, MaterializeToDirectory, InjectCABundle(mutating),
\* InjectCABundle(validating); a step that returns an error other than
\* NotFound is the last one of the run, Setup returns its error, and nothing
\* is written once Setup has returned; a run that returns no error has
\* entered the five steps.
C10_SetupOrder ==
    /\ [](/\ Len(stepsRun) <= Len(SetupOrder)
          /\ \A i \in 1..Len(stepsRun) : stepsRun[i] = SetupOrder[i]
          /\ Len(stepErrs) = (IF spc = "Done" THEN Len(stepsRun)
                              ELSE IF spc = "Idle" THEN 0
                              ELSE Len(stepsRun) - 1)
          /\ \A i \in 1..Len(stepErrs) :
                FatalError(i) => /\ i = Len(stepsRun)
                                 /\ spc = "Done"
                                 /\ setupErr = stepErrs[i]
          /\ (spc = "Done" /\ setupErr = "nil") => Len(stepsRun) = Len(SetupOrder))
    /\ [][spc = "Done" =>
            UNCHANGED <<caStore, leafStore, certDir, resourceFile,
                        mutatingConfig, validatingConfig>>]_vars

\* a run has been cut short by a failed file write, after both secrets were
\* stored and one data file written, with an admission configuration present
C10_Witness ==
    /\ spc = "Done"
    /\ setupErr = "Other"
    /\ stepsRun = SubSeq(SetupOrder, 1, 3)
    /\ caStore.exists /\ leafStore.exists
    /\ dumpTodo # {} /\ dumpTodo # LeafFields
    /\ mutatingConfig.exists
    /\ mutatingConfig.webhooks # <<>>
    /\ \A i \in 1..Len(mutatingConfig.webhooks) : mutatingConfig.webhooks[i].CABundle = NoBlob

\* the pass has been aborted by a failed Create, Update or Delete
AbortedMidPass ==
    /\ pc = "Returned" /\ err = "error"
    /\ calls[Len(calls)].op \in {"Create", "Update", "Delete"}

\* C17 (as claimed): after a pass aborted by a failed Create, Update or
\* Delete the local slot set equals the set the pass listed when it began.
C17_ExistenceUnchanged ==
    AbortedMidPass => local = Range(slotsInLocal)

\* C17 (amended): the failed call changes the existence of no slot, and
\* after the aborted pass the local slot set is the set listed when the pass
\* began, plus the slots created and minus the slots deleted by the calls
\* that succeeded before the failure.
C17_AppliedStaysApplied ==
    /\ [](AbortedMidPass =>
            local = (Range(slotsInLocal) \cup Applied("Create")) \ Applied("Delete"))
    /\ [][(pc \in {"Create", "Update", "Delete"} /\ pc' = "Returned" /\ err' = "error")
            => (local' = local /\ primary' = primary)]_vars

\* a pass has been aborted by a failed Delete after a Create and another
\* Delete had succeeded
C17_Witness ==
    /\ AbortedMidPass
    /\ calls[Len(calls)].op = "Delete"
    /\ Applied("Create") # {}
    /\ Applied("Delete") # {}
    /\ local # Range(slotsInLocal)

\* C18 (as claimed): if from some point on the configuration of the loop
\* enables high availability, the slot set of the primary stays the same
\* set S, cancellation does not fire, the loop has not been ended by a panic
\* and no pass returns an error any more, then the local slot set equals S
\* again and again, whatever configurations and failed passes came before.
C18_RetryConverges ==
    \A S \in SUBSET SlotNames :
        <>[](/\ HAEnabled(config)
             /\ primary = S
             /\ ~cancelled
             /\ pc # "Terminated"
             /\ err = "nil")
        => []<>(local = S)

\* C11: a Setup run whose first three steps succeed and whose injections
\* meet no error other than NotFound, with neither admission configuration
\* present, returns success: both injections were attempted and returned
\* NotFound, the CA and the webhook secret are stored, the files of the
\* certificate directory hold the data of the webhook secret and the
\* sentinel holds its resourceVersion.
C11_NotFoundTolerated ==
    (/\ spc = "Done"
     /\ ~mutatingConfig.exists /\ ~validatingConfig.exists
     /\ Len(stepErrs) >= 3
     /\ \A i \in 1..Len(stepErrs) : stepErrs[i] # "Other")
    => /\ setupErr = "nil"
       /\ stepsRun = SetupOrder
       /\ stepErrs = <<"nil", "nil", "nil", "NotFound", "NotFound">>
       /\ caStore.exists
       /\ leafStore.exists
       /\ webhookSecret = leafStore
       /\ certDir = leafStore.data
       /\ resourceFile = leafStore.rv

\* a run has returned success without any admission configuration, after
\* the webhook secret had been renewed and written again to the directory
C11_Witness ==
    /\ spc = "Done" /\ setupErr = "nil"
    /\ ~mutatingConfig.exists /\ ~validatingConfig.exists
    /\ stepErrs = <<"nil", "nil", "nil", "NotFound", "NotFound">>
    /\ leafStore.exists /\ leafStore.data["tls.crt"].issuedAt > 0
    /\ certDir = leafStore.data
    /\ resourceFile = leafStore.rv

\* DumpSecretToDir is writing files
DumpWriting == spc \in {"DumpWrite", "DumpSentinel"}

\* C12: a call of MaterializeToDirectory that finds the sentinel equal to
\* the resourceVersion of the secret returns success without writing a data
\* file or the sentinel, which still equals the resourceVersion; files are
\* written only by a call that found the sentinel absent or different, and
\* such a call, when it succeeds, has written every data field and the
\* sentinel.
C12_SkipWhenCurrent ==
    /\ [][(spc = "DumpRead" /\ spc' # "DumpRead"
            /\ resourceFile = webhookSecret.rv)
           => /\ ~DumpWriting'
              /\ certDir' = certDir
              /\ resourceFile' = resourceFile
              /\ resourceFile' = webhookSecret'.rv
              /\ (stepErrs'[3] = "nil" => spc' = "MutGet")]_vars
    /\ [][(certDir' # certDir \/ resourceFile' # resourceFile) => DumpWriting]_vars
    /\ [](DumpWriting => resourceFile # webhookSecret.rv)
    /\ []((Len(stepErrs) >= 3 /\ stepErrs[3] = "nil")
            => (certDir = webhookSecret.data /\ resourceFile = webhookSecret.rv))

\* MaterializeToDirectory has returned success in a run that found the
\* webhook secret of an earlier run: that run had written the files and
\* injected the certificate, this one found the sentinel current
C12_Witness ==
    /\ spc = "MutGet"
    /\ stepErrs = <<"nil", "nil", "nil">>
    /\ resourceFile = webhookSecret.rv
    /\ certDir = webhookSecret.data
    /\ mutatingConfig.exists /\ mutatingConfig.webhooks # <<>>
    /\ \A i \in 1..Len(mutatingConfig.webhooks) :
            mutatingConfig.webhooks[i].CABundle = webhookSecret.data["tls.crt"]

\* C13 (as claimed, for a call that returns from the test of the sentinel
\* while no other call is writing): a call of MaterializeToDirectory that
\* returns success for a secret leaves the sentinel equal to the
\* resourceVersion of the secret and every data field of the secret in its
\* file, whatever calls, failed writes and interrupted calls came before.
C13_SuccessMeansOnDisk ==
    [][(/\ spc = "DumpRead"
        /\ other.spc \notin {"DumpWrite", "DumpSentinel"}
        /\ other' = other
        /\ spc' = "MutGet")
       => /\ resourceFile' = webhookSecret.rv
          /\ \A f \in DOMAIN webhookSecret.data : certDir'[f] = webhookSecret.data[f]]_vars

\* the Ensure function, whose Get has answered the record stored, finds at
\* its test of the time that the certificate is not expiring: it returns
\* without a write
FoundCurrent(renew, next, store) ==
    (/\ spc = renew /\ spc' # renew
     /\ secret = store
     /\ ~IsExpiring(store.data[IF renew = "CARenew" THEN "ca.crt" ELSE "tls.crt"], clock))
    => /\ spc' \in {next, "Done"}
       /\ caStore' = caStore
       /\ leafStore' = leafStore
       /\ storeRev' = storeRev
       /\ spc' = next => setupErr' = "nil"

\* C14: EnsureAuthority and EnsureLeafCertificate called when their record
\* exists and its certificate is not past the renewal threshold issue no
\* Create and no Update, leave both records as they are, data and
\* resourceVersion, and return the record read; the records change in no
\* other step than a Create or an Update of the create and renew paths.
C14_Idempotent ==
    [][/\ FoundCurrent("CARenew", "LeafGet", caStore)
       /\ (spc = "CARenew" /\ spc' = "LeafGet") => caSecret' = caStore
       /\ FoundCurrent("LeafRenew", "DumpCheck", leafStore)
       /\ (spc = "LeafRenew" /\ spc' = "DumpCheck") => webhookSecret' = leafStore
       /\ spc \in {"CARenew", "LeafRenew"} => secret.exists
       /\ (caStore' # caStore \/ leafStore' # leafStore) =>
             spc \in {"CACreate", "CAUpdate", "LeafCreate", "LeafUpdate"}]_vars

\* a run has gone through EnsureAuthority and EnsureLeafCertificate with
\* the records of an earlier run, which had written the webhook secret to
\* the directory: both were returned as stored
C14_Witness ==
    /\ spc = "DumpCheck"
    /\ stepErrs = <<"nil", "nil">>
    /\ caStore.exists
    /\ webhookSecret = leafStore /\ leafStore.exists
    /\ resourceFile = leafStore.rv
    /\ storeRev = 2

\* C15 (as claimed): two Setup runs are never in progress at the same time.
C15_NoOverlap ==
    ~(Running(ThisRun) /\ Running(other))

\* an admission configuration that exists has the certificate of the
\* webhook secret of this run in every webhook
Injected(cfg) ==
    cfg.exists => \A i \in 1..Len(cfg.webhooks) :
                      cfg.webhooks[i].CABundle = webhookSecret.data["tls.crt"]

\* the names of the webhooks of an admission configuration, in list order
NamesOf(cfg) == [i \in 1..Len(cfg.webhooks) |-> cfg.webhooks[i].Name]

\* C16: when a Setup run has returned success, every webhook of each
\* admission configuration that exists has as CABundle the tls.crt of the
\* webhook secret EnsureLeafCertificate returned in the run, as stored in
\* the cluster, each injection returned nil exactly for a configuration
\* that exists, and no step changes the existence of a configuration, the
\* number of its webhooks or the order of their names.
C16_BundleInjected ==
    /\ []((spc = "Done" /\ setupErr = "nil") =>
            /\ Injected(mutatingConfig)
            /\ Injected(validatingConfig)
            /\ (stepErrs[4] = "nil") = mutatingConfig.exists
            /\ (stepErrs[5] = "nil") = validatingConfig.exists
            /\ webhookSecret = leafStore)
    /\ [][ /\ mutatingConfig'.exists = mutatingConfig.exists
           /\ Len(mutatingConfig'.webhooks) = Len(mutatingConfig.webhooks)
           /\ NamesOf(mutatingConfig') = NamesOf(mutatingConfig)
           /\ validatingConfig'.exists = validatingConfig.exists
           /\ Len(validatingConfig'.webhooks) = Len(validatingConfig.webhooks)
           /\ NamesOf(validatingConfig') = NamesOf(validatingConfig)]_vars

\* a run has returned success after it renewed the webhook secret and
\* replaced the older certificate in the two webhooks of the mutating
\* configuration, whose names are not in rising order, the validating
\* configuration being absent
C16_Witness ==
    /\ spc = "Done" /\ setupErr = "nil"
    /\ mutatingConfig.exists /\ NamesOf(mutatingConfig) = <<2, 1>>
    /\ ~validatingConfig.exists
    /\ webhookSecret.data["tls.crt"].issuedAt > 0
    /\ \A i \in 1..2 :
           mutatingConfig.webhooks[i].CABundle = leafStore.data["tls.crt"]

\* the webhook certificate stored is signed with the key of the CA stored
SignedByStoredCA ==
    leafStore.exists =>
        /\ caStore.exists
        /\ leafStore.data["tls.crt"].signer = caStore.data["ca.key"].key
        /\ leafStore.data["tls.crt"].signer # 0

\* C19: with two Setup runs interleaved in any way, a record that exists is
\* never created again and keeps its private key, a record changes only by
\* an Update sent with the resourceVersion stored at that moment, a run
\* whose Create or Update is refused returns the error and writes nothing
\* afterwards, and the webhook certificate stored is at every moment
\* signed with the private key of the CA stored.
C19_NoClobber ==
    /\ []SignedByStoredCA
    /\ [][ /\ caStore.exists =>
                /\ caStore'.exists
                /\ caStore'.data["ca.key"] = caStore.data["ca.key"]
                /\ \/ caStore' = caStore
                   \/ (spc = "CAUpdate" /\ secret.rv = caStore.rv /\ caStore'.rv > caStore.rv)
           /\ leafStore.exists =>
                /\ leafStore'.exists
                /\ leafStore'.data["tls.key"] = leafStore.data["tls.key"]
                /\ \/ leafStore' = leafStore
                   \/ (spc = "LeafUpdate" /\ secret.rv = leafStore.rv /\ leafStore'.rv > leafStore.rv)
           /\ (caStore' # caStore /\ ~caStore.exists) => spc = "CACreate"
           /\ (leafStore' # leafStore /\ ~leafStore.exists) => spc = "LeafCreate"
           /\ (/\ spc \in {"CACreate", "CAUpdate", "LeafCreate", "LeafUpdate"}
               /\ spc' # spc /\ other' = other
               /\ caStore' = caStore /\ leafStore' = leafStore)
              => (spc' = "Done" /\ setupErr' = "Other")
           /\ spc = "Done" =>
                UNCHANGED <<caStore, leafStore, certDir, resourceFile,
                            mutatingConfig, validatingConfig>>]_vars

\* a run has been refused the Create of the CA it generated, the other run
\* having created its own in between and gone on to store a webhook secret
C19_Witness ==
    /\ spc = "Done" /\ setupErr = "Other"
    /\ stepsRun = <<"EnsureAuthority">>
    /\ secret.exists /\ secret.rv = 0
    /\ caStore.exists
    /\ caStore.data["ca.key"] # secret.data["ca.key"]
    /\ leafStore.exists
    /\ Running(other)

\* C20 (as claimed): the CA secret EnsureAuthority has returned to Setup,
\* which hands it to EnsureLeafCertificate, is the secret as stored, data
\* and resourceVersion.
C20_ReturnedIsStored ==
    (spc = "LeafGet" /\ stepErrs = <<"nil">>) => caSecret = caStore
====
